---------------------------- MODULE Spec2Model ----------------------------
(***************************************************************************)
(* Verification model of                                                   *)
(*   - core Resource (physical-name lifecycle, name/ARN attribute tokens)  *)
(*   - aws-rds private util setupS3ImportExport                            *)
(***************************************************************************)
EXTENDS Integers, Sequences, FiniteSets, TLC

VARIABLES
    props,                  \* ResourceProps + owning stack handed to the constructor
    stack,                  \* Resource.stack
    env,                    \* Resource.env
    physicalName,           \* Resource.physicalName (the string-encoded token)
    _physicalName,          \* Resource._physicalName
    _allowCrossEnvironment, \* Resource._allowCrossEnvironment
    genCalls,               \* number of generatePhysicalName() invocations so far
    log,                    \* the operations performed on the resource, in order
    s3in,                   \* the arguments of a call of setupS3ImportExport
    s3out,                  \* what that call did and returned
    ddpLog,                 \* the calls of defaultDeletionProtection made, with results
    pubIn,                  \* what ECR and docker answer during one publish()
    pc,                     \* the await publish() is suspended at
    aborted,                \* host.aborted
    abortSeen,              \* what each check of host.aborted in publish() read
    events,                 \* the EventTypes emitted through host.emitMessage
    dockerOps,              \* the docker commands started
    outcome                 \* how publish() ended

resVars == <<props, stack, env, physicalName, _physicalName,
             _allowCrossEnvironment, genCalls, log>>

s3Vars == <<s3in, s3out>>

ddpVars == <<ddpLog>>

pubVars == <<pubIn, pc, aborted, abortSeen, events, dockerOps, outcome>>

vars == <<resVars, s3Vars, ddpVars, pubVars>>

-----------------------------------------------------------------------------
(* Bounds *)

\* longest sequence of operations applied to one resource
MaxOps == 3

\* longest s3ImportBuckets / s3ExportBuckets list
MaxBuckets == 2

\* most calls of defaultDeletionProtection in one run
MaxDdpCalls == 2

-----------------------------------------------------------------------------
(* Values: string | undefined, strings as sequences of fragments so that  *)
(* a string can carry encoded tokens                                        *)

\* a literal fragment, an encoded token (n numbers the encoding: minting a
\* token twice for one deploy-time value gives two encodings), a generated name
Lit(t) == [kind |-> "lit", text |-> t, n |-> 0]
TokN(t, i) == [kind |-> "tok", text |-> t, n |-> i]
Tok(t) == TokN(t, 0)
Gen(t) == [kind |-> "gen", text |-> t, n |-> 0]

Undefined == [def |-> FALSE, s |-> <<>>]
Str(fragments) == [def |-> TRUE, s |-> fragments]

\* JavaScript truthiness of a string | undefined
Truthy(x) == x.def /\ Len(x.s) > 0

\* Token.isUnresolved(str)
isUnresolved(x) == x.def /\ \E i \in 1..Len(x.s) : x.s[i].kind = "tok"

\* PhysicalName.GENERATE_IF_NEEDED
GENERATE_IF_NEEDED == Str(<<Tok("GENERATE_IF_NEEDED")>>)

isGeneratedWhenNeededMarker(x) == x = GENERATE_IF_NEEDED

\* Lazy.stringValue({ produce: () => this._physicalName })
LazyPhysicalName == Str(<<Tok("Lazy:_physicalName")>>)

\* Token.asString(undefined)
TokenUndefined == Str(<<Tok("Token:undefined")>>)

\* values a caller can pass as props.physicalName
PropPhysicalNames ==
    { Undefined,
      Str(<<>>),
      Str(<<Lit("my-bucket")>>),
      Str(<<Tok("T1")>>),
      Str(<<Lit("prefix-"), Tok("T1")>>),
      GENERATE_IF_NEEDED }

-----------------------------------------------------------------------------
(* Stacks: the scopes resources are defined in and referenced from *)

Stacks == {"S1", "S2", "S3", "S4", "S5"}

\* stacks a resource under test is defined in
OwnerStacks == {"S1", "S4"}

\* Stack.account: S1 and S2 share one concrete environment, S3 is in another
\* account, S4 and S5 are environment-agnostic (their account and region are
\* two encodings of the tokens AWS::AccountId and AWS::Region)
StackAccount(s) ==
    CASE s = "S1" -> Str(<<Lit("111111111111")>>)
      [] s = "S2" -> Str(<<Lit("111111111111")>>)
      [] s = "S3" -> Str(<<Lit("222222222222")>>)
      [] s = "S4" -> Str(<<TokN("AWS::AccountId", 1)>>)
      [] s = "S5" -> Str(<<TokN("AWS::AccountId", 2)>>)

\* Stack.region
StackRegion(s) ==
    CASE s = "S1" -> Str(<<Lit("us-east-1")>>)
      [] s = "S2" -> Str(<<Lit("us-east-1")>>)
      [] s = "S3" -> Str(<<Lit("us-east-1")>>)
      [] s = "S4" -> Str(<<TokN("AWS::Region", 1)>>)
      [] s = "S5" -> Str(<<TokN("AWS::Region", 2)>>)

\* Stack.environment: the (account, region) pair of the stack
StackEnvironment(s) == [account |-> StackAccount(s), region |-> StackRegion(s)]

\* this.node.path of the resource defined in stack s with id "Res"
NodePath(s) ==
    CASE s = "S1" -> "S1/Res"
      [] s = "S2" -> "S2/Res"
      [] s = "S3" -> "S3/Res"
      [] s = "S4" -> "S4/Res"
      [] s = "S5" -> "S5/Res"

\* account / region overrides a caller can pass in props
PropOverrides ==
    { [account |-> Undefined, region |-> Undefined],
      [account |-> Str(<<Lit("222222222222")>>), region |-> Undefined],
      [account |-> Undefined, region |-> Str(<<Lit("eu-west-1")>>)] }

\* the inputs of the constructor: the scope's stack and the ResourceProps
ResourceInputs ==
    { [stack |-> s, physicalName |-> pn, account |-> o.account, region |-> o.region] :
        s \in OwnerStacks, pn \in PropPhysicalNames, o \in PropOverrides }

-----------------------------------------------------------------------------
(* Resource *)

\* a ?? b
Coalesce(a, b) == IF a.def THEN a ELSE b

\* the constructor keeping the marker as this.physicalName (no Lazy)
Constructor_NoLazy(p) ==
    LET marker   == Truthy(p.physicalName) /\ isGeneratedWhenNeededMarker(p.physicalName)
        concrete == Truthy(p.physicalName) /\ ~isUnresolved(p.physicalName)
    IN  [ stack |-> p.stack,
          env   |-> [ account |-> Coalesce(p.account, StackAccount(p.stack)),
                      region  |-> Coalesce(p.region, StackRegion(p.stack)) ],
          _physicalName |-> IF marker THEN Undefined ELSE p.physicalName,
          _allowCrossEnvironment |-> marker \/ concrete,
          physicalName |-> IF p.physicalName = Undefined THEN TokenUndefined
                           ELSE p.physicalName ]

\* the constructor with the Token.isUnresolved test of its second branch inverted
Constructor_TokenCheckInverted(p) ==
    LET marker   == Truthy(p.physicalName) /\ isGeneratedWhenNeededMarker(p.physicalName)
        concrete == Truthy(p.physicalName) /\ isUnresolved(p.physicalName)
        local    == IF marker THEN LazyPhysicalName ELSE p.physicalName
    IN  [ stack |-> p.stack,
          env   |-> [ account |-> Coalesce(p.account, StackAccount(p.stack)),
                      region  |-> Coalesce(p.region, StackRegion(p.stack)) ],
          _physicalName |-> IF marker THEN Undefined ELSE p.physicalName,
          _allowCrossEnvironment |-> marker \/ concrete,
          physicalName |-> IF local = Undefined THEN TokenUndefined ELSE local ]

\* Resource.constructor: the fields of the new object
Constructor(p) ==
    LET marker   == Truthy(p.physicalName) /\ isGeneratedWhenNeededMarker(p.physicalName)
        concrete == Truthy(p.physicalName) /\ ~isUnresolved(p.physicalName)
        local    == IF marker THEN LazyPhysicalName ELSE p.physicalName
    IN  [ stack |-> p.stack,
          env   |-> [ account |-> Coalesce(p.account, StackAccount(p.stack)),
                      region  |-> Coalesce(p.region, StackRegion(p.stack)) ],
          _physicalName |-> IF marker THEN Undefined ELSE p.physicalName,
          _allowCrossEnvironment |-> marker \/ concrete,
          physicalName |-> IF local = Undefined THEN TokenUndefined ELSE local ]

\* generatePhysicalName(this): a name derived from the construct path
generatePhysicalName(path) == Str(<<Gen(path)>>)

\* the message of the error _enableCrossEnvironment throws
CrossEnvironmentError(path) ==
    Str(<<Lit("Cannot use resource '"), Lit(path),
          Lit("' in a cross-environment fashion, the resource's physical name must be explicit set or use PhysicalName.GENERATE_IF_NEEDED")>>)

\* the resource object as the methods see it
Self ==
    [ stack |-> stack, env |-> env, physicalName |-> physicalName,
      _physicalName |-> _physicalName,
      _allowCrossEnvironment |-> _allowCrossEnvironment,
      path |-> NodePath(stack) ]

\* _enableCrossEnvironment without the check of _allowCrossEnvironment
enableCrossEnvironment_NoAllowCheck(self) ==
    IF ~Truthy(self._physicalName)
    THEN [ threw |-> FALSE, error |-> Undefined,
           _physicalName |-> generatePhysicalName(self.path), gen |-> 1 ]
    ELSE [ threw |-> FALSE, error |-> Undefined,
           _physicalName |-> self._physicalName, gen |-> 0 ]

\* _enableCrossEnvironment without the check that a name is already stored
enableCrossEnvironment_AlwaysGenerate(self) ==
    IF ~self._allowCrossEnvironment
    THEN [ threw |-> TRUE, error |-> CrossEnvironmentError(self.path),
           _physicalName |-> self._physicalName, gen |-> 0 ]
    ELSE [ threw |-> FALSE, error |-> Undefined,
           _physicalName |-> generatePhysicalName(self.path), gen |-> 1 ]

\* Resource._enableCrossEnvironment: whether it threw, the stored name after
\* it, and how many times it called generatePhysicalName()
enableCrossEnvironment(self) ==
    IF ~self._allowCrossEnvironment
    THEN [ threw |-> TRUE, error |-> CrossEnvironmentError(self.path),
           _physicalName |-> self._physicalName, gen |-> 0 ]
    ELSE IF ~Truthy(self._physicalName)
    THEN [ threw |-> FALSE, error |-> Undefined,
           _physicalName |-> generatePhysicalName(self.path), gen |-> 1 ]
    ELSE [ threw |-> FALSE, error |-> Undefined,
           _physicalName |-> self._physicalName, gen |-> 0 ]

\* the resolver on a string: every encoded token is replaced by what its
\* producer returns; deploy-time tokens stay as they are
RECURSIVE ResolveFragments(_, _)
ResolveFragments(fs, pn) ==
    IF fs = <<>> THEN <<>>
    ELSE LET f == Head(fs)
             r == IF f = LazyPhysicalName.s[1] THEN pn.s ELSE <<f>>
         IN  r \o ResolveFragments(Tail(fs), pn)

\* resolve(value) where pn is what the producer of this.physicalName returns
Resolve(x, pn) ==
    IF ~x.def THEN x
    ELSE IF x = LazyPhysicalName THEN pn
    ELSE IF x = TokenUndefined THEN Undefined
    ELSE Str(ResolveFragments(x.s, pn))

\* the CFN attributes handed to getResourceNameAttribute / getResourceArnAttribute
nameAttr == Str(<<Tok("Ref:Res")>>)
arnAttr == Str(<<Tok("GetAtt:Res.Arn")>>)

\* this.stack.formatArn(arnComponents), arnComponents naming this.physicalName
formatArn(self) ==
    Str(<<Lit("arn:aws:service:")>> \o StackRegion(self.stack).s \o <<Lit(":")>>
        \o StackAccount(self.stack).s \o <<Lit(":resource/")>> \o self.physicalName.s)

\* the test both attribute producers make on the consuming stack
CrossEnvironment(self, consumingStack) ==
    StackEnvironment(self.stack) # StackEnvironment(consumingStack)

\* the name attribute producer returning this.physicalName without calling
\* _enableCrossEnvironment()
ResolveNameAttr_NoEnable(self, consumingStack) ==
    IF CrossEnvironment(self, consumingStack)
    THEN [ called |-> FALSE, threw |-> FALSE,
           out |-> Resolve(self.physicalName, self._physicalName),
           _physicalName |-> self._physicalName, gen |-> 0 ]
    ELSE [ called |-> FALSE, threw |-> FALSE, out |-> Resolve(nameAttr, self._physicalName),
           _physicalName |-> self._physicalName, gen |-> 0 ]

\* the name attribute producer reading the stored name before it calls
\* _enableCrossEnvironment()
ResolveNameAttr_StaleName(self, consumingStack) ==
    IF CrossEnvironment(self, consumingStack)
    THEN LET e == enableCrossEnvironment(self)
         IN  [ called |-> TRUE, threw |-> e.threw,
               out |-> IF e.threw THEN e.error
                       ELSE Resolve(self.physicalName, self._physicalName),
               _physicalName |-> e._physicalName, gen |-> e.gen ]
    ELSE [ called |-> FALSE, threw |-> FALSE, out |-> Resolve(nameAttr, self._physicalName),
           _physicalName |-> self._physicalName, gen |-> 0 ]

\* resolution of the token getResourceNameAttribute(nameAttr) returns, with
\* the context scope in consumingStack: the produce callback, then the
\* recursive resolution of what it returned
ResolveNameAttr(self, consumingStack) ==
    IF CrossEnvironment(self, consumingStack)
    THEN LET e == enableCrossEnvironment(self)
         IN  [ called |-> TRUE, threw |-> e.threw,
               out |-> IF e.threw THEN e.error
                       ELSE Resolve(self.physicalName, e._physicalName),
               _physicalName |-> e._physicalName, gen |-> e.gen ]
    ELSE [ called |-> FALSE, threw |-> FALSE, out |-> Resolve(nameAttr, self._physicalName),
           _physicalName |-> self._physicalName, gen |-> 0 ]

\* the ARN attribute producer calling _enableCrossEnvironment() before it
\* looks at the consuming stack
ResolveArnAttr_AlwaysEnable(self, consumingStack) ==
    LET e == enableCrossEnvironment(self)
    IN  IF e.threw
        THEN [ called |-> TRUE, threw |-> TRUE, out |-> e.error,
               _physicalName |-> e._physicalName, gen |-> e.gen ]
        ELSE [ called |-> TRUE, threw |-> FALSE,
               out |-> IF CrossEnvironment(self, consumingStack)
                       THEN Resolve(formatArn(self), e._physicalName)
                       ELSE Resolve(arnAttr, e._physicalName),
               _physicalName |-> e._physicalName, gen |-> e.gen ]

\* resolution of the token getResourceArnAttribute(arnAttr, arnComponents) returns
ResolveArnAttr(self, consumingStack) ==
    IF CrossEnvironment(self, consumingStack)
    THEN LET e == enableCrossEnvironment(self)
         IN  [ called |-> TRUE, threw |-> e.threw,
               out |-> IF e.threw THEN e.error
                       ELSE Resolve(formatArn(self), e._physicalName),
               _physicalName |-> e._physicalName, gen |-> e.gen ]
    ELSE [ called |-> FALSE, threw |-> FALSE, out |-> Resolve(arnAttr, self._physicalName),
           _physicalName |-> self._physicalName, gen |-> 0 ]

\* resolution of this.physicalName
ResolvePhysicalNameToken(self) == Resolve(self.physicalName, self._physicalName)

-----------------------------------------------------------------------------
(* aws-rds private util: setupS3ImportExport *)

\* iam.IRole | undefined
NoRole == [def |-> FALSE, id |-> "", created |-> FALSE]
GivenRole(id) == [def |-> TRUE, id |-> id, created |-> FALSE]
\* new iam.Role(scope, id, { assumedBy: rds.amazonaws.com })
NewRole(id) == [def |-> TRUE, id |-> id, created |-> TRUE]

\* s3.IBucket[] | undefined
NoBuckets == [def |-> FALSE, list |-> <<>>]
BucketList(l) == [def |-> TRUE, list |-> l]

\* boolean | undefined
NoBool == [def |-> FALSE, b |-> FALSE]
Bool(b) == [def |-> TRUE, b |-> b]

Buckets == {"bucket1", "bucket2"}
RoleArgs == {NoRole, GivenRole("RoleA"), GivenRole("RoleB")}
BucketArgs ==
    {NoBuckets} \cup
    { BucketList(l) : l \in UNION { [1..n -> Buckets] : n \in 0..MaxBuckets } }
BoolArgs == {NoBool, Bool(TRUE), Bool(FALSE)}

\* the (props, combineRoles) arguments
S3Inputs ==
    [ s3ImportRole : RoleArgs, s3ImportBuckets : BucketArgs,
      s3ExportRole : RoleArgs, s3ExportBuckets : BucketArgs,
      combineRoles : BoolArgs ]

NonEmpty(buckets) == buckets.def /\ Len(buckets.list) > 0

\* bucket.grantRead(role) / bucket.grantReadWrite(role) for each bucket of a list
Grants(buckets, role, access) ==
    { [bucket |-> buckets.list[i], role |-> role, access |-> access] :
        i \in 1..Len(buckets.list) }

ImportError == "Only one of s3ImportRole or s3ImportBuckets must be specified, not both."
ExportError == "Only one of s3ExportRole or s3ExportBuckets must be specified, not both."

\* setupS3ImportExport ignoring combineRoles
setupS3ImportExport_NeverCombine(p) ==
    LET doImport == NonEmpty(p.s3ImportBuckets)
        importRole == IF doImport THEN NewRole("S3ImportRole") ELSE p.s3ImportRole
        created1 == IF doImport THEN <<"S3ImportRole">> ELSE <<>>
        grants1 == IF doImport THEN Grants(p.s3ImportBuckets, importRole, "Read") ELSE {}
        doExport == NonEmpty(p.s3ExportBuckets)
        exportRole == IF doExport THEN NewRole("S3ExportRole") ELSE p.s3ExportRole
        created2 == IF doExport THEN <<"S3ExportRole">> ELSE <<>>
        grants2 == IF doExport THEN Grants(p.s3ExportBuckets, exportRole, "ReadWrite") ELSE {}
    IN  IF doImport /\ p.s3ImportRole.def
        THEN [ ran |-> TRUE, threw |-> TRUE, error |-> ImportError,
               s3ImportRole |-> NoRole, s3ExportRole |-> NoRole,
               created |-> <<>>, grants |-> {} ]
        ELSE IF doExport /\ p.s3ExportRole.def
        THEN [ ran |-> TRUE, threw |-> TRUE, error |-> ExportError,
               s3ImportRole |-> NoRole, s3ExportRole |-> NoRole,
               created |-> created1, grants |-> grants1 ]
        ELSE [ ran |-> TRUE, threw |-> FALSE, error |-> "",
               s3ImportRole |-> importRole, s3ExportRole |-> exportRole,
               created |-> created1 \o created2, grants |-> grants1 \cup grants2 ]

\* setupS3ImportExport making the export check before the import block
setupS3ImportExport_ExportCheckedFirst(p) ==
    LET combine == p.combineRoles.def /\ p.combineRoles.b
        doImport == NonEmpty(p.s3ImportBuckets)
        reuse1 == combine /\ p.s3ExportRole.def
        importRole == IF ~doImport THEN p.s3ImportRole
                      ELSE IF reuse1 THEN p.s3ExportRole ELSE NewRole("S3ImportRole")
        created1 == IF doImport /\ ~reuse1 THEN <<"S3ImportRole">> ELSE <<>>
        grants1 == IF doImport THEN Grants(p.s3ImportBuckets, importRole, "Read") ELSE {}
        doExport == NonEmpty(p.s3ExportBuckets)
        reuse2 == combine /\ importRole.def
        exportRole == IF ~doExport THEN p.s3ExportRole
                      ELSE IF reuse2 THEN importRole ELSE NewRole("S3ExportRole")
        created2 == IF doExport /\ ~reuse2 THEN <<"S3ExportRole">> ELSE <<>>
        grants2 == IF doExport THEN Grants(p.s3ExportBuckets, exportRole, "ReadWrite") ELSE {}
    IN  IF doExport /\ p.s3ExportRole.def
        THEN [ ran |-> TRUE, threw |-> TRUE, error |-> ExportError,
               s3ImportRole |-> NoRole, s3ExportRole |-> NoRole,
               created |-> <<>>, grants |-> {} ]
        ELSE IF doImport /\ p.s3ImportRole.def
        THEN [ ran |-> TRUE, threw |-> TRUE, error |-> ImportError,
               s3ImportRole |-> NoRole, s3ExportRole |-> NoRole,
               created |-> <<>>, grants |-> {} ]
        ELSE [ ran |-> TRUE, threw |-> FALSE, error |-> "",
               s3ImportRole |-> importRole, s3ExportRole |-> exportRole,
               created |-> created1 \o created2, grants |-> grants1 \cup grants2 ]

\* setupS3ImportExport(scope, props, combineRoles): whether it threw, the roles
\* it returned, the roles it created in scope and the grants it made (those
\* made before a throw included)
setupS3ImportExport(p) ==
    LET combine == p.combineRoles.def /\ p.combineRoles.b
        doImport == NonEmpty(p.s3ImportBuckets)
        reuse1 == combine /\ p.s3ExportRole.def
        importRole == IF ~doImport THEN p.s3ImportRole
                      ELSE IF reuse1 THEN p.s3ExportRole ELSE NewRole("S3ImportRole")
        created1 == IF doImport /\ ~reuse1 THEN <<"S3ImportRole">> ELSE <<>>
        grants1 == IF doImport THEN Grants(p.s3ImportBuckets, importRole, "Read") ELSE {}
        doExport == NonEmpty(p.s3ExportBuckets)
        reuse2 == combine /\ importRole.def
        exportRole == IF ~doExport THEN p.s3ExportRole
                      ELSE IF reuse2 THEN importRole ELSE NewRole("S3ExportRole")
        created2 == IF doExport /\ ~reuse2 THEN <<"S3ExportRole">> ELSE <<>>
        grants2 == IF doExport THEN Grants(p.s3ExportBuckets, exportRole, "ReadWrite") ELSE {}
    IN  IF doImport /\ p.s3ImportRole.def
        THEN [ ran |-> TRUE, threw |-> TRUE, error |-> ImportError,
               s3ImportRole |-> NoRole, s3ExportRole |-> NoRole,
               created |-> <<>>, grants |-> {} ]
        ELSE IF doExport /\ p.s3ExportRole.def
        THEN [ ran |-> TRUE, threw |-> TRUE, error |-> ExportError,
               s3ImportRole |-> NoRole, s3ExportRole |-> NoRole,
               created |-> created1, grants |-> grants1 ]
        ELSE [ ran |-> TRUE, threw |-> FALSE, error |-> "",
               s3ImportRole |-> importRole, s3ExportRole |-> exportRole,
               created |-> created1 \o created2, grants |-> grants1 \cup grants2 ]

\* no call made yet
S3NotRun ==
    [ ran |-> FALSE, threw |-> FALSE, error |-> "", s3ImportRole |-> NoRole,
      s3ExportRole |-> NoRole, created |-> <<>>, grants |-> {} ]

\* no call of setupS3ImportExport is part of the run
S3Idle ==
    /\ s3in = [ s3ImportRole |-> NoRole, s3ImportBuckets |-> NoBuckets,
                s3ExportRole |-> NoRole, s3ExportBuckets |-> NoBuckets,
                combineRoles |-> NoBool ]
    /\ s3out = S3NotRun

-----------------------------------------------------------------------------
(* aws-rds private util: defaultDeletionProtection *)

\* RemovalPolicy | undefined
NoPolicy == [def |-> FALSE, v |-> ""]
Policy(v) == [def |-> TRUE, v |-> v]
RemovalPolicies == {"destroy", "retain", "snapshot"}
RETAIN == Policy("retain")

PolicyArgs == {NoPolicy} \cup { Policy(v) : v \in RemovalPolicies }

\* defaultDeletionProtection letting RETAIN win over an explicit value
defaultDeletionProtection_RetainFirst(deletionProtection, removalPolicy) ==
    IF removalPolicy = RETAIN THEN Bool(TRUE)
    ELSE IF deletionProtection.def THEN deletionProtection
    ELSE NoBool

\* defaultDeletionProtection(deletionProtection, removalPolicy)
defaultDeletionProtection(deletionProtection, removalPolicy) ==
    IF deletionProtection.def
    THEN deletionProtection
    ELSE (IF removalPolicy = RETAIN THEN Bool(TRUE) ELSE NoBool)

\* no call of defaultDeletionProtection is part of the run
DdpIdle == ddpLog = <<>>

-----------------------------------------------------------------------------
(* ContainerImageAssetHandler *)

\* what the outside answers during one publish(): describeRepositories,
\* describeImages, docker.exists, and the docker command that fails, if any
PubInputs ==
    [ repo   : {"uri", "empty", "RepositoryNotFoundException", "OtherError"},
      image  : {"found", "ImageNotFoundException", "OtherError"},
      local  : BOOLEAN,
      failAt : {"none", "exists", "build", "tag", "login", "push"} ]

\* repositoryUri(ecr, repositoryName): the uri, undefined, or a rethrown error
repositoryUri(repo) ==
    CASE repo = "uri" -> [threw |-> FALSE, uri |-> TRUE]
      [] repo = "empty" -> [threw |-> FALSE, uri |-> FALSE]
      [] repo = "RepositoryNotFoundException" -> [threw |-> FALSE, uri |-> FALSE]
      [] OTHER -> [threw |-> TRUE, uri |-> FALSE]

\* imageExists answering false whatever describeImages says
imageExists_NeverFound(image) ==
    CASE image = "OtherError" -> [threw |-> TRUE, value |-> FALSE]
      [] OTHER -> [threw |-> FALSE, value |-> FALSE]

\* imageExists(ecr, repositoryName, imageTag)
imageExists(image) ==
    CASE image = "found" -> [threw |-> FALSE, value |-> TRUE]
      [] image = "ImageNotFoundException" -> [threw |-> FALSE, value |-> FALSE]
      [] OTHER -> [threw |-> TRUE, value |-> FALSE]

\* publish() without its check of host.aborted before docker.tag
AbortedBeforeTag_NotChecked(hostAborted) == FALSE

\* if (this.host.aborted) { return; } before buildImage()
AbortedBeforeBuild(hostAborted) == hostAborted

\* if (this.host.aborted) { return; } before docker.tag
AbortedBeforeTag(hostAborted) == hostAborted

\* a check of host.aborted has not been reached / what it read
NotSeen == "-"
Seen(b) == IF b THEN "true" ELSE "false"

\* publish() returns / rejects
Return(o) == pc' = "done" /\ outcome' = o

\* no publish() is part of the run
PubIdle ==
    /\ pubIn = [repo |-> "uri", image |-> "found", local |-> FALSE, failAt |-> "none"]
    /\ pc = "done"
    /\ aborted = FALSE
    /\ abortSeen = [before |-> NotSeen, after |-> NotSeen]
    /\ events = <<>>
    /\ dockerOps = <<>>
    /\ outcome = "-"

\* publish() is called; host.aborted may already be set
InitPublish ==
    /\ pubIn \in PubInputs
    /\ pc = "replaceAwsPlaceholders"
    /\ aborted \in BOOLEAN
    /\ abortSeen = [before |-> NotSeen, after |-> NotSeen]
    /\ events = <<>>
    /\ dockerOps = <<>>
    /\ outcome = "-"

\* the host is told to stop while publish() waits
Abort ==
    /\ pc # "done"
    /\ UNCHANGED <<resVars, s3Vars, ddpVars>>
    /\ ~aborted
    /\ aborted' = TRUE
    /\ UNCHANGED <<pubIn, pc, abortSeen, events, dockerOps, outcome>>

\* await replaceAwsPlaceholders(...) resolves
ReplaceAwsPlaceholders ==
    /\ pc = "replaceAwsPlaceholders"
    /\ UNCHANGED <<resVars, s3Vars, ddpVars>>
    /\ pc' = "ecrClient"
    /\ UNCHANGED <<pubIn, aborted, abortSeen, events, dockerOps, outcome>>

\* await this.host.aws.ecrClient(destination) resolves
EcrClient ==
    /\ pc = "ecrClient"
    /\ UNCHANGED <<resVars, s3Vars, ddpVars>>
    /\ pc' = "repositoryUri"
    /\ UNCHANGED <<pubIn, aborted, abortSeen, events, dockerOps, outcome>>

\* await repositoryUri(...) settles; with a uri CHECK is emitted and
\* imageExists is called
RepositoryUri ==
    /\ pc = "repositoryUri"
    /\ UNCHANGED <<resVars, s3Vars, ddpVars>>
    /\ LET r == repositoryUri(pubIn.repo)
       IN  IF r.threw THEN Return("threw: describeRepositories") /\ UNCHANGED events
           ELSE IF ~r.uri THEN Return("threw: No ECR repository") /\ UNCHANGED events
           ELSE /\ events' = Append(events, "CHECK")
                /\ pc' = "imageExists"
                /\ UNCHANGED outcome
    /\ UNCHANGED <<pubIn, aborted, abortSeen, dockerOps>>

\* await imageExists(...) settles; found: FOUND and return; not found: the
\* first check of host.aborted, then buildImage() starts docker.exists
ImageExists ==
    /\ pc = "imageExists"
    /\ UNCHANGED <<resVars, s3Vars, ddpVars>>
    /\ LET r == imageExists(pubIn.image)
       IN  IF r.threw
           THEN Return("threw: describeImages")
                /\ UNCHANGED <<events, abortSeen, dockerOps>>
           ELSE IF r.value
           THEN /\ events' = Append(events, "FOUND")
                /\ Return("returned")
                /\ UNCHANGED <<abortSeen, dockerOps>>
           ELSE /\ abortSeen' = [abortSeen EXCEPT !.before = Seen(aborted)]
                /\ IF AbortedBeforeBuild(aborted)
                   THEN Return("returned") /\ UNCHANGED dockerOps
                   ELSE /\ dockerOps' = Append(dockerOps, "exists")
                        /\ pc' = "docker.exists"
                        /\ UNCHANGED outcome
                /\ UNCHANGED events
    /\ UNCHANGED <<pubIn, aborted>>

\* buildImage() has returned: UPLOAD is emitted, host.aborted is checked a
\* second time, then docker.tag starts
AfterBuildImage(emitted) ==
    /\ events' = Append(events \o emitted, "UPLOAD")
    /\ abortSeen' = [abortSeen EXCEPT !.after = Seen(aborted)]
    /\ IF AbortedBeforeTag(aborted)
       THEN Return("returned") /\ UNCHANGED dockerOps
       ELSE /\ dockerOps' = Append(dockerOps, "tag")
            /\ pc' = "docker.tag"
            /\ UNCHANGED outcome

\* await this.docker.exists(localTagName) settles, in buildImage(): cached, or
\* BUILD is emitted and docker.build starts
DockerExists ==
    /\ pc = "docker.exists"
    /\ UNCHANGED <<resVars, s3Vars, ddpVars>>
    /\ IF pubIn.failAt = "exists"
       THEN Return("threw: docker exists") /\ UNCHANGED <<events, abortSeen, dockerOps>>
       ELSE IF pubIn.local
       THEN AfterBuildImage(<<"CACHED">>)
       ELSE /\ events' = Append(events, "BUILD")
            /\ dockerOps' = Append(dockerOps, "build")
            /\ pc' = "docker.build"
            /\ UNCHANGED <<abortSeen, outcome>>
    /\ UNCHANGED <<pubIn, aborted>>

\* await this.docker.build(...) settles
DockerBuild ==
    /\ pc = "docker.build"
    /\ UNCHANGED <<resVars, s3Vars, ddpVars>>
    /\ IF pubIn.failAt = "build"
       THEN Return("threw: docker build") /\ UNCHANGED <<events, abortSeen, dockerOps>>
       ELSE AfterBuildImage(<<>>)
    /\ UNCHANGED <<pubIn, aborted>>

\* await this.docker.tag(localTagName, uri) settles
DockerTag ==
    /\ pc = "docker.tag"
    /\ UNCHANGED <<resVars, s3Vars, ddpVars>>
    /\ IF pubIn.failAt = "tag"
       THEN Return("threw: docker tag") /\ UNCHANGED dockerOps
       ELSE /\ dockerOps' = Append(dockerOps, "login")
            /\ pc' = "docker.login"
            /\ UNCHANGED outcome
    /\ UNCHANGED <<pubIn, aborted, abortSeen, events>>

\* await this.docker.login(ecr) settles
DockerLogin ==
    /\ pc = "docker.login"
    /\ UNCHANGED <<resVars, s3Vars, ddpVars>>
    /\ IF pubIn.failAt = "login"
       THEN Return("threw: docker login") /\ UNCHANGED dockerOps
       ELSE /\ dockerOps' = Append(dockerOps, "push")
            /\ pc' = "docker.push"
            /\ UNCHANGED outcome
    /\ UNCHANGED <<pubIn, aborted, abortSeen, events>>

\* await this.docker.push(uri) settles
DockerPush ==
    /\ pc = "docker.push"
    /\ UNCHANGED <<resVars, s3Vars, ddpVars>>
    /\ Return(IF pubIn.failAt = "push" THEN "threw: docker push" ELSE "returned")
    /\ UNCHANGED <<pubIn, aborted, abortSeen, events, dockerOps>>

-----------------------------------------------------------------------------
(* The resource under test: construction, then any sequence of operations *)

InitResource ==
    \E p \in ResourceInputs :
        LET c == Constructor(p)
        IN  /\ props = p
            /\ stack = c.stack
            /\ env = c.env
            /\ physicalName = c.physicalName
            /\ _physicalName = c._physicalName
            /\ _allowCrossEnvironment = c._allowCrossEnvironment
            /\ genCalls = 0
            /\ log = <<>>

\* a direct call of _enableCrossEnvironment()
CallEnableCrossEnvironment ==
    /\ Len(log) < MaxOps
    /\ LET e == enableCrossEnvironment(Self)
       IN  /\ _physicalName' = e._physicalName
           /\ genCalls' = genCalls + e.gen
           /\ log' = Append(log, [ op |-> "enable", scope |-> stack, called |-> TRUE,
                                   threw |-> e.threw,
                                   out |-> IF e.threw THEN e.error ELSE Undefined ])
    /\ UNCHANGED <<props, stack, env, physicalName, _allowCrossEnvironment, s3Vars, ddpVars, pubVars>>

\* the resolver reaches this.physicalName in the resource's own template
ResolvePhysicalName ==
    /\ Len(log) < MaxOps
    /\ log' = Append(log, [ op |-> "physicalName", scope |-> stack, called |-> FALSE,
                            threw |-> FALSE, out |-> ResolvePhysicalNameToken(Self) ])
    /\ UNCHANGED <<props, stack, env, physicalName, _physicalName,
                   _allowCrossEnvironment, genCalls, s3Vars, ddpVars, pubVars>>

\* the resolver reaches the name attribute token in a template of stack s
ResolveNameAttribute(s) ==
    /\ Len(log) < MaxOps
    /\ LET r == ResolveNameAttr(Self, s)
       IN  /\ _physicalName' = r._physicalName
           /\ genCalls' = genCalls + r.gen
           /\ log' = Append(log, [ op |-> "name", scope |-> s, called |-> r.called,
                                   threw |-> r.threw, out |-> r.out ])
    /\ UNCHANGED <<props, stack, env, physicalName, _allowCrossEnvironment, s3Vars, ddpVars, pubVars>>

\* the resolver reaches the ARN attribute token in a template of stack s
ResolveArnAttribute(s) ==
    /\ Len(log) < MaxOps
    /\ LET r == ResolveArnAttr(Self, s)
       IN  /\ _physicalName' = r._physicalName
           /\ genCalls' = genCalls + r.gen
           /\ log' = Append(log, [ op |-> "arn", scope |-> s, called |-> r.called,
                                   threw |-> r.threw, out |-> r.out ])
    /\ UNCHANGED <<props, stack, env, physicalName, _allowCrossEnvironment, s3Vars, ddpVars, pubVars>>

Init == InitResource /\ S3Idle /\ DdpIdle /\ PubIdle

Next ==
    \/ CallEnableCrossEnvironment
    \/ ResolvePhysicalName
    \/ \E s \in Stacks : ResolveNameAttribute(s)
    \/ \E s \in Stacks : ResolveArnAttribute(s)

Spec == Init /\ [][Next]_vars

-----------------------------------------------------------------------------
(* One call of setupS3ImportExport on any arguments *)

\* no resource operation is part of the run
ResourceIdle ==
    LET p == [ stack |-> "S1", physicalName |-> Undefined,
               account |-> Undefined, region |-> Undefined ]
        c == Constructor(p)
    IN  /\ props = p
        /\ stack = c.stack
        /\ env = c.env
        /\ physicalName = c.physicalName
        /\ _physicalName = c._physicalName
        /\ _allowCrossEnvironment = c._allowCrossEnvironment
        /\ genCalls = 0
        /\ log = <<>>

InitS3 ==
    /\ ResourceIdle
    /\ DdpIdle
    /\ PubIdle
    /\ s3in \in S3Inputs
    /\ s3out = S3NotRun

CallSetupS3ImportExport ==
    /\ ~s3out.ran
    /\ s3out' = setupS3ImportExport(s3in)
    /\ UNCHANGED <<resVars, s3in, ddpVars, pubVars>>

NextS3 == CallSetupS3ImportExport

SpecS3 == InitS3 /\ [][NextS3]_vars

-----------------------------------------------------------------------------
(* Any sequence of calls of defaultDeletionProtection on any arguments *)

InitDdp ==
    /\ ResourceIdle
    /\ S3Idle
    /\ PubIdle
    /\ ddpLog = <<>>

CallDefaultDeletionProtection ==
    /\ Len(ddpLog) < MaxDdpCalls
    /\ \E dp \in BoolArgs, rp \in PolicyArgs :
          ddpLog' = Append(ddpLog, [ deletionProtection |-> dp, removalPolicy |-> rp,
                                     result |-> defaultDeletionProtection(dp, rp) ])
    /\ UNCHANGED <<resVars, s3Vars, pubVars>>

NextDdp == CallDefaultDeletionProtection

SpecDdp == InitDdp /\ [][NextDdp]_vars

-----------------------------------------------------------------------------
(* One publish() of a container image asset *)

InitPub ==
    /\ ResourceIdle
    /\ S3Idle
    /\ DdpIdle
    /\ InitPublish

NextPub ==
    \/ Abort
    \/ ReplaceAwsPlaceholders
    \/ EcrClient
    \/ RepositoryUri
    \/ ImageExists
    \/ DockerExists
    \/ DockerBuild
    \/ DockerTag
    \/ DockerLogin
    \/ DockerPush

SpecPub == InitPub /\ [][NextPub]_vars

-----------------------------------------------------------------------------
(* Vocabulary of the properties of the resource *)

Ops == 1..Len(log)

\* how the resource was constructed
NoName == props.physicalName = Undefined
IsMarker == props.physicalName = GENERATE_IF_NEEDED
TokenName == isUnresolved(props.physicalName) /\ ~IsMarker
ExplicitName == props.physicalName.def /\ ~IsMarker /\ ~isUnresolved(props.physicalName)

\* the name generated for the resource under test, and the error it raises
GeneratedName == generatePhysicalName(NodePath(props.stack))
ExpectedError == CrossEnvironmentError(NodePath(props.stack))

\* some call of _enableCrossEnvironment() so far returned normally
Enabled == \E i \in Ops : log[i].called /\ ~log[i].threw

\* operation i is a name/ARN attribute resolution from a stack whose
\* environment differs from that of the stack the resource is defined in
CrossRef(i) ==
    /\ log[i].op \in {"name", "arn"}
    /\ StackEnvironment(log[i].scope) # StackEnvironment(props.stack)

\* the ARN composed for the resource under test once its name is n
ComposedArn(n) ==
    Str(<<Lit("arn:aws:service:")>> \o StackRegion(props.stack).s \o <<Lit(":")>>
        \o StackAccount(props.stack).s \o <<Lit(":resource/")>> \o n.s)

\* Token.compareStrings(a, b) reports the same value: equal up to the
\* encoding of the tokens
Decoded(x) == [def |-> x.def, s |-> [i \in 1..Len(x.s) |-> [x.s[i] EXCEPT !.n = 0]]]
SameValue(a, b) == Decoded(a) = Decoded(b)
SameEnvironment(e1, e2) ==
    SameValue(e1.account, e2.account) /\ SameValue(e1.region, e2.region)

-----------------------------------------------------------------------------
(* C1 *)

\* C1: a resource constructed with no physicalName, or with one that contains
\* unresolved tokens, has a false cross-environment allowance; every call of
\* _enableCrossEnvironment(), direct or made by a name/ARN resolution from a
\* stack in a different environment, throws the cross-environment error naming
\* the resource's path, the stored name stays what was passed in and no name
\* is ever generated.
C1_UnsetNeverCrossEnvironment ==
    (NoName \/ TokenName) =>
        /\ ~_allowCrossEnvironment
        /\ _physicalName = props.physicalName
        /\ genCalls = 0
        /\ \A i \in Ops :
              /\ CrossRef(i) => log[i].called
              /\ log[i].called => log[i].threw /\ log[i].out = ExpectedError

\* a token-named resource on which a direct call and a cross-environment
\* name resolution have both failed
C1_Witness ==
    /\ TokenName
    /\ \E i, j \in Ops :
          /\ log[i].op = "enable" /\ log[i].threw
          /\ CrossRef(j) /\ log[j].op = "name" /\ log[j].threw

-----------------------------------------------------------------------------
(* C2 *)

\* C2: on a resource constructed with the generate-if-needed marker no call of
\* _enableCrossEnvironment() throws; the stored name is undefined until the
\* first call and the generated name from then on, generatePhysicalName() has
\* run exactly once after the first call however many calls and
\* cross-environment references followed, and every cross-environment name
\* reference yields that one stored name.
C2_GeneratedExactlyOnce ==
    IsMarker =>
        /\ \A i \in Ops : log[i].called => ~log[i].threw
        /\ \A i \in Ops : CrossRef(i) => log[i].called
        /\ _physicalName = IF Enabled THEN GeneratedName ELSE Undefined
        /\ genCalls = IF Enabled THEN 1 ELSE 0
        /\ \A i \in Ops : log[i].op = "name" /\ log[i].called => log[i].out = GeneratedName

\* a marker resource after three calls of _enableCrossEnvironment(): a direct
\* one and two through cross-environment references
C2_Witness ==
    /\ IsMarker
    /\ Len(log) >= 3
    /\ \A i \in Ops : log[i].called
    /\ \E i, j \in Ops : i < j /\ log[i].op = "enable" /\ log[j].op = "name"
    /\ genCalls = 1

-----------------------------------------------------------------------------
(* C3 *)

\* C3 (as stated): resolving the name or ARN attribute token from stack S
\* returns the native attribute exactly when the environment of S equals the
\* resource's env (props.account / props.region overrides included);
\* otherwise _enableCrossEnvironment() is called and the composed value (the
\* physical name, or the ARN formatted from it) is returned.
C3_NativeIffSameEnv ==
    \A i \in Ops : log[i].op \in {"name", "arn"} =>
        LET same   == StackEnvironment(log[i].scope) = env
            native == IF log[i].op = "name" THEN nameAttr ELSE arnAttr
        IN  /\ (~log[i].threw /\ log[i].out = native) <=> same
            /\ ~same => log[i].called
            /\ ~same /\ ~log[i].threw =>
                  log[i].out = IF log[i].op = "name" THEN _physicalName
                               ELSE ComposedArn(_physicalName)

-----------------------------------------------------------------------------
(* C4 *)

\* C4: for a resource A constructed with the generate-if-needed marker in a
\* stack of environment X, resolving the name attribute of A from a stack of
\* environment Y # X calls _enableCrossEnvironment(), does not throw, leaves A
\* with the generated name stored and yields exactly that generated name:
\* never nameAttr, never undefined.
C4_EndToEndGeneratedName ==
    IsMarker =>
        \A i \in Ops : log[i].op = "name" /\ CrossRef(i) =>
            /\ log[i].called /\ ~log[i].threw
            /\ log[i].out = GeneratedName
            /\ log[i].out # nameAttr /\ log[i].out.def
            /\ _physicalName = GeneratedName

\* the first operation on a marker resource is a name reference from a stack
\* in another environment
C4_Witness ==
    /\ IsMarker
    /\ Len(log) >= 1
    /\ log[1].op = "name" /\ CrossRef(1)
    /\ log[1].out = GeneratedName

-----------------------------------------------------------------------------
(* C5 *)

\* C5 (as stated): on a resource constructed with any string that is not the
\* marker and holds no unresolved token, cross-environment references are
\* allowed, _enableCrossEnvironment() never throws, never generates and leaves
\* the stored name equal to the supplied one.
C5_ExplicitAlwaysAllowed ==
    ExplicitName =>
        /\ \A i \in Ops : log[i].called => ~log[i].threw
        /\ genCalls = 0
        /\ _physicalName = props.physicalName

\* C5 (amended): the same for every non-empty such string.
C5_NonEmptyExplicitAlwaysAllowed ==
    (ExplicitName /\ Len(props.physicalName.s) > 0) =>
        /\ _allowCrossEnvironment
        /\ \A i \in Ops : log[i].called => ~log[i].threw
        /\ \A i \in Ops : CrossRef(i) => log[i].called
        /\ genCalls = 0
        /\ _physicalName = props.physicalName

\* an explicitly named resource after a direct call and a cross-environment
\* reference
C5_Witness ==
    /\ ExplicitName /\ Len(props.physicalName.s) > 0
    /\ \E i, j \in Ops : log[i].op = "enable" /\ CrossRef(j) /\ log[j].called

-----------------------------------------------------------------------------
(* C6 *)

\* operations i and j resolved the same token with the same context
SameResolution(i, j) ==
    /\ log[i].op \in {"physicalName", "name", "arn"}
    /\ log[i].op = log[j].op
    /\ log[i].scope = log[j].scope

SameOutput(i, j) == log[i].threw = log[j].threw /\ log[i].out = log[j].out

\* C6 (as stated): any two resolutions of the same token (physicalName, name
\* attribute or ARN attribute) with the same context give the same output,
\* whatever was resolved in between.
C6_ResolutionDeterministic ==
    \A i, j \in Ops : SameResolution(i, j) => SameOutput(i, j)

\* C6 (amended): that holds of the name and ARN attribute tokens, and of the
\* physicalName token of every resource not constructed with the marker; the
\* physicalName token of a marker resource resolves to undefined before the
\* first call of _enableCrossEnvironment() and to the generated name after it,
\* so two of its resolutions agree unless that first call lies between them.
C6_DeterministicButLazyName ==
    \A i, j \in Ops : SameResolution(i, j) /\ i < j =>
        IF log[i].op = "physicalName" /\ IsMarker
        THEN /\ log[i].out = IF \E k \in 1..i : log[k].called THEN GeneratedName ELSE Undefined
             /\ log[j].out = IF \E k \in 1..j : log[k].called THEN GeneratedName ELSE Undefined
        ELSE SameOutput(i, j)

\* a marker resource whose name attribute was resolved twice from one stack
\* in another environment, and whose physicalName was resolved after that
C6_Witness ==
    /\ IsMarker
    /\ \E i, j, k \in Ops :
          /\ i < j /\ j < k
          /\ log[i].op = "name" /\ CrossRef(i) /\ SameResolution(i, j)
          /\ log[k].op = "physicalName"

-----------------------------------------------------------------------------
(* C7 *)

\* C7 (as stated): when the environment of the consuming stack and that of the
\* resource (of its stack, and its env) are the same up to the encoding of
\* their tokens, the name/ARN attribute resolves to the native attribute and
\* _enableCrossEnvironment() is not called.
C7_TokenAwareSameEnvironment ==
    \A i \in Ops :
        ( /\ log[i].op \in {"name", "arn"}
          /\ SameEnvironment(StackEnvironment(log[i].scope), StackEnvironment(props.stack))
          /\ SameEnvironment(StackEnvironment(log[i].scope), env) )
        => /\ ~log[i].called /\ ~log[i].threw
           /\ log[i].out = IF log[i].op = "name" THEN nameAttr ELSE arnAttr

-----------------------------------------------------------------------------
(* C8 *)

\* C8: in every state this.physicalName resolves to the name the caller
\* supplied (explicit or holding tokens), to undefined when none was supplied
\* and, for a marker resource, to undefined until _enableCrossEnvironment()
\* has succeeded and to the generated name from then on; never to the marker.
C8_PhysicalNameResolvesTo ==
    LET now == ResolvePhysicalNameToken(Self)
        expected == IF IsMarker THEN (IF Enabled THEN GeneratedName ELSE Undefined)
                    ELSE props.physicalName
    IN  /\ now = expected
        /\ now # GENERATE_IF_NEEDED
        /\ \A i \in Ops : log[i].op = "physicalName" =>
              /\ ~log[i].threw
              /\ log[i].out # GENERATE_IF_NEEDED
              /\ log[i].out =
                    IF IsMarker
                    THEN (IF \E k \in 1..i : log[k].called /\ ~log[k].threw
                          THEN GeneratedName ELSE Undefined)
                    ELSE props.physicalName

\* the physicalName of a marker resource resolved before and after the name
\* was generated
C8_Witness ==
    /\ IsMarker
    /\ \E i, j \in Ops :
          /\ i < j
          /\ log[i].op = "physicalName" /\ log[i].out = Undefined
          /\ log[j].op = "physicalName" /\ log[j].out = GeneratedName

-----------------------------------------------------------------------------
(* C9 *)

S3Combine == s3in.combineRoles.def /\ s3in.combineRoles.b
S3Returned == s3out.ran /\ ~s3out.threw

\* C9: whenever setupS3ImportExport returns, with combineRoles true it has
\* created at most one role and, if both returned roles are defined and a
\* bucket list was non-empty, they are one role; with combineRoles false or
\* omitted it has created one new role per non-empty bucket list and returns
\* it; and always every import bucket grants read to the returned import role
\* and every export bucket grants read-write to the returned export role.
C9_RoleCombining ==
    S3Returned =>
        /\ S3Combine =>
              /\ Len(s3out.created) <= 1
              /\ ( /\ s3out.s3ImportRole.def /\ s3out.s3ExportRole.def
                   /\ (NonEmpty(s3in.s3ImportBuckets) \/ NonEmpty(s3in.s3ExportBuckets)) )
                 => s3out.s3ImportRole = s3out.s3ExportRole
        /\ ~S3Combine =>
              /\ s3out.created =
                    (IF NonEmpty(s3in.s3ImportBuckets) THEN <<"S3ImportRole">> ELSE <<>>)
                    \o (IF NonEmpty(s3in.s3ExportBuckets) THEN <<"S3ExportRole">> ELSE <<>>)
              /\ NonEmpty(s3in.s3ImportBuckets) => s3out.s3ImportRole = NewRole("S3ImportRole")
              /\ NonEmpty(s3in.s3ExportBuckets) => s3out.s3ExportRole = NewRole("S3ExportRole")
        /\ \A i \in 1..Len(s3in.s3ImportBuckets.list) :
              /\ s3out.s3ImportRole.def
              /\ [ bucket |-> s3in.s3ImportBuckets.list[i], role |-> s3out.s3ImportRole,
                    access |-> "Read" ] \in s3out.grants
        /\ \A i \in 1..Len(s3in.s3ExportBuckets.list) :
              /\ s3out.s3ExportRole.def
              /\ [ bucket |-> s3in.s3ExportBuckets.list[i], role |-> s3out.s3ExportRole,
                    access |-> "ReadWrite" ] \in s3out.grants

\* combineRoles true, both bucket lists non-empty: one role created and shared
C9_Witness ==
    /\ S3Returned /\ S3Combine
    /\ NonEmpty(s3in.s3ImportBuckets) /\ NonEmpty(s3in.s3ExportBuckets)
    /\ s3out.created = <<"S3ImportRole">>
    /\ s3out.s3ExportRole = s3out.s3ImportRole

-----------------------------------------------------------------------------
(* C10 *)

S3ImportConflict == s3in.s3ImportRole.def /\ NonEmpty(s3in.s3ImportBuckets)
S3ExportConflict == s3in.s3ExportRole.def /\ NonEmpty(s3in.s3ExportBuckets)

\* with both bucket lists absent or empty the call does not throw, creates
\* no role, grants nothing and returns the supplied roles
S3NothingToDo ==
    (~NonEmpty(s3in.s3ImportBuckets) /\ ~NonEmpty(s3in.s3ExportBuckets)) =>
        /\ ~s3out.threw
        /\ s3out.created = <<>> /\ s3out.grants = {}
        /\ s3out.s3ImportRole = s3in.s3ImportRole
        /\ s3out.s3ExportRole = s3in.s3ExportRole

\* C10 (as stated): the call throws the import error exactly when
\* s3ImportRole comes with a non-empty s3ImportBuckets, and the export error
\* exactly when s3ExportRole comes with a non-empty s3ExportBuckets; with both
\* bucket lists absent or empty it does nothing and returns the supplied roles.
C10_ValidationExactly ==
    s3out.ran =>
        /\ (s3out.threw /\ s3out.error = ImportError) <=> S3ImportConflict
        /\ (s3out.threw /\ s3out.error = ExportError) <=> S3ExportConflict
        /\ S3NothingToDo

\* C10 (amended): the export error is thrown exactly when s3ExportRole comes
\* with a non-empty s3ExportBuckets and the import error is not thrown (the
\* import check comes first and a call throws one error); the rest as stated.
C10_ValidationImportFirst ==
    s3out.ran =>
        /\ (s3out.threw /\ s3out.error = ImportError) <=> S3ImportConflict
        /\ (s3out.threw /\ s3out.error = ExportError) <=>
              (S3ExportConflict /\ ~S3ImportConflict)
        /\ s3out.threw => s3out.error \in {ImportError, ExportError}
        /\ S3NothingToDo

\* a call given both a role and buckets on the import and on the export side
C10_Witness ==
    /\ s3out.ran
    /\ S3ImportConflict /\ S3ExportConflict
    /\ s3out.threw /\ s3out.error = ImportError

-----------------------------------------------------------------------------
(* C11 *)

\* C11: defaultDeletionProtection returns the deletionProtection it was given
\* whenever that is defined (false included, also under RETAIN); given
\* undefined it returns true exactly when removalPolicy is RETAIN and
\* undefined otherwise; it returns false only when false was passed in.
C11_DefaultDeletionProtection ==
    \A i \in 1..Len(ddpLog) :
        LET c == ddpLog[i]
        IN  /\ c.deletionProtection.def => c.result = c.deletionProtection
            /\ ~c.deletionProtection.def =>
                  /\ (c.result = Bool(TRUE)) <=> (c.removalPolicy = RETAIN)
                  /\ c.removalPolicy # RETAIN => c.result = NoBool
            /\ c.result = Bool(FALSE) => c.deletionProtection = Bool(FALSE)

\* an explicit false kept under RETAIN, and a default of true under RETAIN
C11_Witness ==
    \E i, j \in 1..Len(ddpLog) :
        /\ ddpLog[i].deletionProtection = Bool(FALSE)
        /\ ddpLog[i].removalPolicy = RETAIN
        /\ ddpLog[i].result = Bool(FALSE)
        /\ ddpLog[j].deletionProtection = NoBool
        /\ ddpLog[j].removalPolicy = RETAIN
        /\ ddpLog[j].result = Bool(TRUE)

-----------------------------------------------------------------------------
(* C12 *)

\* operation i is a name/ARN attribute resolution from a stack whose
\* environment is that of the stack the resource is defined in
SameRef(i) ==
    /\ log[i].op \in {"name", "arn"}
    /\ StackEnvironment(log[i].scope) = StackEnvironment(props.stack)

\* the operation just performed is such a resolution
LastIsSameRef == Len(log) > 0 /\ SameRef(Len(log))

\* the resource was only ever referenced, and only from its own environment
OnlySameRefs ==
    \A i \in Ops : log[i].op # "enable" /\ (log[i].op \in {"name", "arn"} => SameRef(i))

\* C12: a name or ARN attribute resolution from a stack in the resource's own
\* environment never calls _enableCrossEnvironment(), never throws (whatever
\* the physical name) and returns the native attribute; the step leaves the
\* stored name, the allowance and the number of generations as they were; a
\* marker resource only referenced that way keeps an undefined stored name.
C12_SameEnvironmentNoEffect ==
    /\ [](\A i \in Ops : SameRef(i) =>
            /\ ~log[i].called /\ ~log[i].threw
            /\ log[i].out = IF log[i].op = "name" THEN nameAttr ELSE arnAttr)
    /\ []((IsMarker /\ OnlySameRefs) => (_physicalName = Undefined /\ genCalls = 0))
    /\ [][(log' # log /\ LastIsSameRef') =>
            /\ _physicalName' = _physicalName
            /\ _allowCrossEnvironment' = _allowCrossEnvironment
            /\ genCalls' = genCalls]_vars

\* a marker resource whose name and ARN were resolved from its own stack and
\* from another stack of the same environment, and nothing else
C12_Witness ==
    /\ IsMarker /\ OnlySameRefs
    /\ Len(log) = 3
    /\ \A i \in Ops : SameRef(i)
    /\ \E i, j \in Ops : log[i].op = "name" /\ log[j].op = "arn"
                          /\ log[j].scope # props.stack
    /\ _physicalName = Undefined

-----------------------------------------------------------------------------
(* C13 *)

Started(op) == \E i \in 1..Len(dockerOps) : dockerOps[i] = op

\* C13: if host.aborted is set when publish() reaches the check before
\* buildImage(), publish() returns with no docker command started; if it is
\* set at the check after buildImage(), publish() returns with no docker tag,
\* login or push started; docker push is started only in runs in which both
\* checks read host.aborted as false.
C13_AbortChecks ==
    /\ abortSeen.before = "true" =>
          pc = "done" /\ outcome = "returned" /\ dockerOps = <<>>
    /\ abortSeen.after = "true" =>
          /\ pc = "done" /\ outcome = "returned"
          /\ ~Started("tag") /\ ~Started("login") /\ ~Started("push")
    /\ Started("push") => abortSeen.before = "false" /\ abortSeen.after = "false"

\* host.aborted became true while docker build ran: the image was built and
\* publish() returned at the second check
C13_Witness ==
    /\ abortSeen = [before |-> "false", after |-> "true"]
    /\ Started("build")
    /\ pc = "done"

-----------------------------------------------------------------------------
(* C14 *)

\* s is a prefix of t
IsPrefix(s, t) == Len(s) <= Len(t) /\ \A i \in 1..Len(s) : s[i] = t[i]

\* C14: when the repository exists and describeImages finds the image tag,
\* publish() starts no docker command and emits nothing but CHECK then FOUND,
\* and once it has ended it has returned normally having emitted both,
\* whether or not host.aborted is set.
C14_PublishedImageSkipped ==
    (pubIn.repo = "uri" /\ pubIn.image = "found") =>
        /\ dockerOps = <<>>
        /\ IsPrefix(events, <<"CHECK", "FOUND">>)
        /\ pc = "done" => outcome = "returned" /\ events = <<"CHECK", "FOUND">>

\* publish() has ended on an image that was already there, the host aborted
C14_Witness ==
    /\ pubIn.repo = "uri" /\ pubIn.image = "found"
    /\ pc = "done" /\ outcome = "returned"
    /\ events = <<"CHECK", "FOUND">>
    /\ aborted

=============================================================================
